---- MODULE Spec2Model ----
(***************************************************************************)
(* fiasco.Element (src/fiasco/element.py): the collection of all ions of   *)
(* one element, its rate-matrix builder, its equilibrium solver and its    *)
(* indexed access.                                                         *)
(*                                                                         *)
(* Strings are sequences of one-character strings, so that str.split,      *)
(* str.strip, str.capitalize and int() are computed and not assumed.       *)
(* Rates are integers (exact arithmetic); a fraction is a pair             *)
(* numerator / denominator.                                                *)
(***************************************************************************)
EXTENDS Integers, Sequences, FiniteSets, TLC

\* ------------------------------------------------------------------ bounds
\* largest atomic number an element is constructed with
MaxZ == 2
\* largest number of (stage, temperature) rate samples of one element
MaxCells == 4
\* a direction that has no integer vector with components in Components is
\* written to one part in Resolution, by at most MaxSteps steps of iteration
Resolution == 1000
MaxSteps == 40
\* lengths of the temperature grid
TShapes == {1, 2}
\* values a provider's ionization / recombination rate takes at one sample
Rates == {0, 1}
\* components of the integer vectors that write the direction of a singular
\* vector
Components == {-1, 0, 1}

\* a name or a key is an integer or a string
IntKey(k) == [str |-> FALSE, s |-> <<>>, n |-> k]
StrKey(s) == [str |-> TRUE, s |-> s, n |-> 0]

\* ----------------------------------------------------------------- strings
Digits == <<"0", "1", "2", "3", "4", "5", "6", "7", "8", "9">>
Lowers == <<"a", "b", "c", "d", "e", "f", "g", "h", "i", "j", "k", "l", "m",
            "n", "o", "p", "q", "r", "s", "t", "u", "v", "w", "x", "y", "z">>
Uppers == <<"A", "B", "C", "D", "E", "F", "G", "H", "I", "J", "K", "L", "M",
            "N", "O", "P", "Q", "R", "S", "T", "U", "V", "W", "X", "Y", "Z">>
Whitespace == {" "}

RECURSIVE IndexOf(_, _, _)
\* position of c in sequence s at or after i, 0 when absent
IndexOf(s, c, i) ==
    IF i > Len(s) THEN 0
    ELSE IF s[i] = c THEN i ELSE IndexOf(s, c, i + 1)

\* str.upper / str.lower of one character
UpperChar(c) == LET k == IndexOf(Lowers, c, 1) IN IF k = 0 THEN c ELSE Uppers[k]
LowerChar(c) == LET k == IndexOf(Uppers, c, 1) IN IF k = 0 THEN c ELSE Lowers[k]

\* str.capitalize(): first character upper-cased, the rest lower-cased
capitalize(s) ==
    [k \in 1..Len(s) |-> IF k = 1 THEN UpperChar(s[k]) ELSE LowerChar(s[k])]

RECURSIVE splitAcc(_, _, _)
splitAcc(s, cur, acc) ==
    IF s = <<>>
    THEN IF cur = <<>> THEN acc ELSE Append(acc, cur)
    ELSE IF Head(s) \in Whitespace
         THEN splitAcc(Tail(s), <<>>, IF cur = <<>> THEN acc ELSE Append(acc, cur))
         ELSE splitAcc(Tail(s), Append(cur, Head(s)), acc)

\* str.split() with no argument: the runs of non-whitespace characters
split(s) == splitAcc(s, <<>>, <<>>)

RECURSIVE lstrip(_, _)
lstrip(s, c) == IF s # <<>> /\ Head(s) = c THEN lstrip(Tail(s), c) ELSE s

RECURSIVE rstrip(_, _)
rstrip(s, c) ==
    IF s # <<>> /\ s[Len(s)] = c THEN rstrip(SubSeq(s, 1, Len(s) - 1), c) ELSE s

\* str.strip(c): leading and trailing occurrences of c removed
strip(s, c) == rstrip(lstrip(s, c), c)

RECURSIVE DigitsValue(_, _)
\* value of a sequence of decimal digits, -1 when a character is no digit
DigitsValue(s, acc) ==
    IF s = <<>> THEN acc
    ELSE LET d == IndexOf(Digits, Head(s), 1)
         IN  IF d = 0 THEN -1 ELSE DigitsValue(Tail(s), 10 * acc + (d - 1))

\* int(s) for a token without whitespace: an optional sign and at least one
\* digit; anything else is a ValueError
int(s) ==
    LET signed == s # <<>> /\ Head(s) \in {"+", "-"}
        body   == IF signed THEN Tail(s) ELSE s
        mag    == IF body = <<>> THEN -1 ELSE DigitsValue(body, 0)
    IN  IF mag < 0 THEN [kind |-> "ValueError"]
        ELSE [kind |-> "ok",
              val  |-> IF signed /\ Head(s) = "-" THEN 0 - mag ELSE mag]

\* ------------------------------------------------------- species resolution
\* symbols and full names of the first elements, by atomic number
Symbols == << <<"H">>, <<"H", "e">>, <<"L", "i">>, <<"B", "e">>, <<"B">> >>
ElementNames ==
    << <<"H", "y", "d", "r", "o", "g", "e", "n">>,
       <<"H", "e", "l", "i", "u", "m">>,
       <<"L", "i", "t", "h", "i", "u", "m">>,
       <<"B", "e", "r", "y", "l", "l", "i", "u", "m">>,
       <<"B", "o", "r", "o", "n">> >>

\* plasmapy.particles.atomic_number: the symbol, the full name or the atomic
\* number of an element is mapped to its atomic number, which is at least 1;
\* anything else (the number 0 included) is an InvalidParticleError (-1
\* here).
atomic_number(name) ==
    IF name.str
    THEN LET hit == {z \in 1..Len(Symbols) :
                        Symbols[z] = name.s \/ ElementNames[z] = name.s}
         IN  IF hit = {} THEN -1 ELSE CHOOSE z \in hit : TRUE
    ELSE IF name.n >= 1 /\ name.n <= 118 THEN name.n ELSE -1

\* lines 34-36 of __init__: a string name is capitalised, then resolved
Resolve(name) ==
    atomic_number(IF name.str THEN [name EXCEPT !.s = capitalize(name.s)]
                  ELSE name)

\* ---------------------------------------------------------------- providers
\* fiasco.Ion(f'{Z} {i+1}', temperature): the provider of one ionization
\* stage, with the rates it returns over the temperature grid
Ion(Z, stage, ionization, recombination) ==
    [Z |-> Z, stage |-> stage,
     ionization_rate |-> ionization, recombination_rate |-> recombination]

\* ion_list after the loop of __init__ over range(Z + 1)
IonListMissingLast(Z, ion, rec) == [i \in 1..Z |-> Ion(Z, i, ion[i - 1], rec[i - 1])]
IonList(Z, ion, rec) == [i \in 1..(Z + 1) |-> Ion(Z, i, ion[i - 1], rec[i - 1])]

\* the (Z, stage) pairs fiasco.Ion was called with, in call order, when the
\* constructor of stage failAt raises (failAt = 0: none raises)
IonCalls(Z, failAt) ==
    [i \in 1..(IF failAt = 0 THEN Z + 1 ELSE failAt) |-> <<Z, i>>]

\* __init__: the unit check of the decorator, the resolution of the name,
\* then one provider per stage 1..Z+1, then the collection. An error leaves
\* no collection.
NewElement(name, unitOk, T, failAt, ion, rec) ==
    IF ~unitOk THEN [kind |-> "UnitsError", calls |-> <<>>, ion_list |-> <<>>]
    ELSE LET Z == Resolve(name)
         IN  IF Z < 0
             THEN [kind |-> "InvalidParticleError", calls |-> <<>>, ion_list |-> <<>>]
             ELSE IF failAt # 0
             THEN [kind |-> "IonError", calls |-> IonCalls(Z, failAt),
                   ion_list |-> <<>>]
             ELSE [kind |-> "ok", calls |-> IonCalls(Z, 0),
                   ion_list |-> IonList(Z, ion, rec)]

\* ------------------------------------------------------------ indexed access
\* IonCollection.__getitem__: the sequence lookup of the base class; a
\* negative position counts from the end (the builder uses self[-1] and
\* self[-2]), a position outside the sequence is an IndexError
SuperGetItem(ions, value) ==
    LET n == Len(ions)
    IN  IF 0 <= value /\ value < n
        THEN [kind |-> "ok", val |-> ions[value + 1], pos |-> value, reached |-> TRUE]
        ELSE IF 0 - n <= value /\ value < 0
        THEN [kind |-> "ok", val |-> ions[n + value + 1], pos |-> n + value,
              reached |-> TRUE]
        ELSE [kind |-> "IndexError", reached |-> TRUE]

\* el, ion = value.split(): exactly two tokens, or a ValueError
UnpackDefaultStage(toks) ==
    [kind |-> "ok", ion |-> IF Len(toks) >= 2 THEN toks[2] ELSE <<"1">>]
Unpack(toks) ==
    IF Len(toks) = 2 THEN [kind |-> "ok", ion |-> toks[2]]
    ELSE [kind |-> "ValueError"]

\* the position a stage token names: "<charge>+" is the charge, "<stage>"
\* is the stage minus one
StageToPositionNoOffset(ion) ==
    IF IndexOf(ion, "+", 1) # 0 THEN int(strip(ion, "+")) ELSE int(ion)
StageToPosition(ion) ==
    IF IndexOf(ion, "+", 1) # 0
    THEN int(strip(ion, "+"))
    ELSE LET n == int(ion)
         IN  IF n.kind = "ok" THEN [kind |-> "ok", val |-> n.val - 1] ELSE n

\* Element.__getitem__
getitem(ions, value) ==
    IF value.str
    THEN LET u == Unpack(split(value.s))
         IN  IF u.kind # "ok" THEN [kind |-> u.kind, reached |-> FALSE]
             ELSE LET n == StageToPosition(u.ion)
                  IN  IF n.kind # "ok" THEN [kind |-> n.kind, reached |-> FALSE]
                      ELSE SuperGetItem(ions, n.val)
    ELSE SuperGetItem(ions, value.n)

\* atomic_number and temperature.shape of an element
AtomicNumber(ions) == getitem(ions, IntKey(0)).val.Z

\* -------------------------------------------------------- rate matrix builder
\* numpy index into an axis of length n: negative counts from the end,
\* -1 here when out of bounds (an IndexError)
AxisIndex(k, n) ==
    IF 0 <= k /\ k < n THEN k
    ELSE IF 0 - n <= k /\ k < 0 THEN n + k ELSE -1

\* np.zeros(temperature.shape + (Z+1, Z+1))
Zeros(T, Z) == [t \in 1..T |-> [r \in 0..Z |-> [c \in 0..Z |-> 0]]]

\* One assignment rate_matrix[:, r, c] = <what of self[p]>
Stmt(r, c, what, p) == [r |-> r, c |-> c, what |-> what, p |-> p]

\* the three assignments of the loop body for row i
LoopBodySubDiagonalOwnRate(i) ==
    << Stmt(i, i, "diag", i), Stmt(i, i - 1, "ion", i), Stmt(i, i + 1, "rec", i + 1) >>
LoopBodySuperDiagonalOwnRate(i) ==
    << Stmt(i, i, "diag", i), Stmt(i, i - 1, "ion", i - 1), Stmt(i, i + 1, "rec", i) >>
LoopBody(i) ==
    << Stmt(i, i, "diag", i), Stmt(i, i - 1, "ion", i - 1), Stmt(i, i + 1, "rec", i + 1) >>

RECURSIVE InteriorFrom(_, _)
\* for i in range(1, Z): the loop bodies of rows i..Z-1 in order
InteriorFrom(i, Z) ==
    IF i >= Z THEN <<>> ELSE LoopBody(i) \o InteriorFrom(i + 1, Z)

Interior(Z) == InteriorFrom(1, Z)

\* the four assignments after the loop
BoundaryLastRowDiagonalOnly ==
    << Stmt(0, 0, "diag", 0), Stmt(0, 1, "rec", 1),
       Stmt(-1, -1, "diag", -1), Stmt(-1, -1, "ion", -2) >>
Boundary ==
    << Stmt(0, 0, "diag", 0), Stmt(0, 1, "rec", 1),
       Stmt(-1, -1, "diag", -1), Stmt(-1, -2, "ion", -2) >>

\* the right-hand side of an assignment, over the temperature grid
RhsIonizationOnly(what, ion, T) ==
    [t \in 1..T |->
        IF what = "diag" THEN 0 - ion.ionization_rate[t]
        ELSE IF what = "ion" THEN ion.ionization_rate[t]
        ELSE ion.recombination_rate[t]]
Rhs(what, ion, T) ==
    [t \in 1..T |->
        IF what = "diag" THEN 0 - (ion.ionization_rate[t] + ion.recombination_rate[t])
        ELSE IF what = "ion" THEN ion.ionization_rate[t]
        ELSE ion.recombination_rate[t]]

RECURSIVE Execute(_, _, _, _, _)
\* the assignments stmts[k..] executed in order on matrix M; the first
\* lookup or index that fails ends the call with its error
Execute(stmts, k, M, written, ions) ==
    IF k > Len(stmts) THEN [kind |-> "ok", val |-> M, written |-> written]
    ELSE LET s   == stmts[k]
             T   == Len(M)
             n   == Cardinality(DOMAIN M[1])
             got == getitem(ions, IntKey(s.p))
             r   == AxisIndex(s.r, n)
             c   == AxisIndex(s.c, n)
         IN  IF got.kind # "ok" \/ r < 0 \/ c < 0
             THEN [kind |-> "IndexError", at |-> k, written |-> written]
             ELSE LET v == Rhs(s.what, got.val, T)
                  IN  Execute(stmts, k + 1,
                              [t \in 1..T |-> [M[t] EXCEPT ![r][c] = v[t]]],
                              Append(written, <<r, c>>), ions)

\* Element._rate_matrix
rate_matrix_of(ions, T) ==
    LET Z == AtomicNumber(ions)
    IN  Execute(Interior(Z) \o Boundary, 1, Zeros(T, Z), <<>>, ions)

\* --------------------------------------------------------- equilibrium solver
RECURSIVE SumTo(_, _)
\* f[0] + ... + f[n]
SumTo(f, n) == IF n < 0 THEN 0 ELSE f[n] + SumTo(f, n - 1)

\* the matrix-vector product A.v and the squared length of a vector
MatVec(A, v, Z) == [r \in 0..Z |-> SumTo([c \in 0..Z |-> A[r][c] * v[c]], Z)]
Norm2(v, Z) == SumTo([i \in 0..Z |-> v[i] * v[i]], Z)

\* sequence s without its k-th element
Without(s, k) == SubSeq(s, 1, k - 1) \o SubSeq(s, k + 1, Len(s))

RECURSIVE DetOn(_, _, _)
\* determinant of the rows and columns of A listed, by expansion along the
\* first row listed
DetOn(A, rows, cols) ==
    IF rows = <<>> THEN 1
    ELSE SumTo([k \in 0..(Len(cols) - 1) |->
                  (IF k % 2 = 0 THEN 1 ELSE -1) * A[Head(rows)][cols[k + 1]]
                  * DetOn(A, Tail(rows), Without(cols, k + 1))],
               Len(cols) - 1)

RECURSIVE SortedSeq(_)
\* the elements of a set of integers in increasing order
SortedSeq(S) ==
    IF S = {} THEN <<>>
    ELSE LET m == CHOOSE x \in S : \A y \in S : x <= y
         IN  <<m>> \o SortedSeq(S \ {m})

\* a symmetric matrix is positive semidefinite when no principal minor is
\* negative
PositiveSemidefinite(N, Z) ==
    \A S \in SUBSET (0..Z) : DetOn(N, SortedSeq(S), SortedSeq(S)) >= 0

\* the transpose of A
Transpose(A, Z) == [r \in 0..Z |-> [c \in 0..Z |-> A[c][r]]]

\* the directions of the unit vectors the model represents: a vector is
\* written by an integer vector of its direction
Grid(Z) == {v \in [0..Z -> Components] : \E i \in 0..Z : v[i] # 0}

\* v is a right singular vector of A of the smallest singular value: with
\* B = A^T.A, n = |v|^2 and q = |A.v|^2, either A.v = 0 (no singular value is
\* below 0), or B.v = (q / n) v and no eigenvalue of B is below q / n, that
\* is n.B - q.I is positive semidefinite
IsLastSingular(A, v, Z) ==
    LET n  == Norm2(v, Z)
        w  == MatVec(A, v, Z)
        q  == Norm2(w, Z)
    IN  \/ q = 0
        \/ /\ LET Bv == MatVec(Transpose(A, Z), w, Z)
               IN  \A i \in 0..Z : n * Bv[i] = q * v[i]
           /\ LET N == [i \in 0..Z |-> [j \in 0..Z |->
                        n * SumTo([r \in 0..Z |-> A[r][i] * A[r][j]], Z)
                        - (IF i = j THEN q ELSE 0)]]
               IN  PositiveSemidefinite(N, Z)

\* the directions with components in Components that are a right singular
\* vector of the smallest singular value of A, exactly
ExactLastSingular(A, Z) == {v \in Grid(Z) : IsLastSingular(A, v, Z)}

Abs(x) == IF x < 0 THEN 0 - x ELSE x
Sign(x) == IF x < 0 THEN -1 ELSE 1

RECURSIVE MaxAbsTo(_, _)
MaxAbsTo(v, n) ==
    IF n < 0 THEN 0
    ELSE LET m == MaxAbsTo(v, n - 1) IN IF Abs(v[n]) > m THEN Abs(v[n]) ELSE m

\* a / b rounded to the nearest integer, for b > 0
RoundDiv(a, b) == Sign(a) * ((Abs(a) + b \div 2) \div b)

RECURSIVE Tabulate(_, _)
\* the function on 0..n with the values of f, each computed once
Tabulate(f, n) == IF n = 0 THEN 0 :> f[0] ELSE Tabulate(f, n - 1) @@ (n :> f[n])

\* the matrix A^T.A, whose eigenvectors are the right singular vectors of A
\* and whose eigenvalues are the squares of its singular values
Gram(A, Z) ==
    Tabulate([i \in 0..Z |-> Tabulate([j \in 0..Z |->
        SumTo([r \in 0..Z |-> A[r][i] * A[r][j]], Z)], Z)], Z)

\* the adjugate of B: det(B) times the inverse of B where B has one
Adjugate(B, Z) ==
    Tabulate([i \in 0..Z |-> Tabulate([j \in 0..Z |->
        (IF (i + j) % 2 = 0 THEN 1 ELSE -1)
        * DetOn(B, SortedSeq((0..Z) \ {j}), SortedSeq((0..Z) \ {i}))], Z)], Z)

\* the vector y in the same direction with largest component Resolution in
\* absolute value, each component rounded to an integer (y is first divided
\* so that the products stay below 2^31)
Rescale(y, Z) ==
    LET m == MaxAbsTo(y, Z)
        d == m \div 1000000 + 1
    IN  IF m = 0 THEN [i \in 0..Z |-> 0]
        ELSE Tabulate([i \in 0..Z |->
                RoundDiv(Sign(y[i]) * (Abs(y[i]) \div d) * Resolution, m \div d)], Z)

RECURSIVE InverseIteration(_, _, _, _)
\* inverse iteration x <- adj(B).x, rescaled, until the vector no longer
\* changes: it turns to the eigenvectors of the smallest eigenvalue of B
InverseIteration(C, x, k, Z) ==
    LET y == Rescale(Tabulate(MatVec(C, x, Z), Z), Z)
    IN  IF k = 0 \/ y = x \/ MaxAbsTo(y, Z) = 0 THEN x
        ELSE InverseIteration(C, y, k - 1, Z)

\* the right singular vectors of the smallest singular value of A to one part
\* in Resolution: the vectors the iteration reaches from the unit vectors,
\* those kept under which adj(B) grows most (a start orthogonal to the
\* eigenvectors sought ends at another eigenvector, which grows less), in
\* both signs
ApproxLastSingular(A, Z) ==
    LET C    == Adjugate(Gram(A, Z), Z)
        X    == {InverseIteration(C, [j \in 0..Z |-> IF j = i THEN Resolution ELSE 0],
                                  MaxSteps, Z) : i \in 0..Z}
        g(x) == MaxAbsTo(MatVec(C, x, Z), Z)
        top  == CHOOSE a \in {g(x) : x \in X} : \A x \in X : g(x) <= a
        best == {x \in X : g(x) >= top - top \div 100}
    IN  best \cup {[i \in 0..Z |-> 0 - x[i]] : x \in best}

\* np.linalg.svd(A): V[-1, :], a right singular vector of the smallest
\* singular value, unique up to its sign when that singular value is simple;
\* written by an integer vector of its direction, exactly where the direction
\* has components in Components and to a few parts in Resolution otherwise.
\* Where the smallest singular value is repeated every vector of its
\* eigenspace is a last singular vector, and the set holds several directions.
LastSingular(A, Z) ==
    LET E == ExactLastSingular(A, Z)
    IN  IF E # {} THEN E ELSE ApproxLastSingular(A, Z)

RECURSIVE svdFrom(_, _, _, _)
svdFrom(M, t, T, Z) ==
    IF t > T THEN {<<>>}
    ELSE {<<v>> \o rest : v \in LastSingular(M[t], Z), rest \in svdFrom(M, t + 1, T, Z)}

\* the batched decomposition: one last singular vector per temperature slice
svd(M, T, Z) == svdFrom(M, 1, T, Z)

\* np.fabs(V[:, -1, :])
FabsIdentity(V, T, Z) == V
Fabs(V, T, Z) ==
    [t \in 1..T |-> [i \in 0..Z |-> IF V[t][i] < 0 THEN 0 - V[t][i] ELSE V[t][i]]]

\* ioneq /= ioneq.sum(axis=1)[:, np.newaxis]: every entry of row t over the
\* sum of row t, as numerators and their common denominator
Normalize(ioneq, T, Z) ==
    [t \in 1..T |-> [num |-> ioneq[t], den |-> SumTo(ioneq[t], Z)]]

\* rate_matrix = kwargs.get('rate_matrix', None), built when it is None
RateMatrixArgAlwaysBuilt(ions, T, kw) ==
    LET b == rate_matrix_of(ions, T)
    IN  [kind |-> b.kind, val |-> IF b.kind = "ok" THEN b.val ELSE <<>>,
         built |-> TRUE]
RateMatrixArg(ions, T, kw) ==
    IF kw.given /\ ~kw.none
    THEN [kind |-> "ok", val |-> kw.val, built |-> FALSE]
    ELSE LET b == rate_matrix_of(ions, T)
         IN  [kind |-> b.kind, val |-> IF b.kind = "ok" THEN b.val ELSE <<>>,
              built |-> TRUE]

\* the fractions returned for the singular vectors V
Fractions(V, T, Z) == Normalize(Fabs(V, T, Z), T, Z)

\* -------------------------------------------------------------------- inputs
RECURSIVE NatStr(_)
\* the decimal digits of a natural number, as a caller formats a key
NatStr(n) ==
    IF n < 10 THEN <<Digits[n + 1]>>
    ELSE NatStr(n \div 10) \o <<Digits[(n % 10) + 1]>>

IntStr(n) == IF n < 0 THEN <<"-">> \o NatStr(0 - n) ELSE NatStr(n)

\* the key "<el> <stage>" and the key "<el> <charge>+"
StageKey(el, stage) == StrKey(el \o <<" ">> \o IntStr(stage))
ChargeKey(el, charge) == StrKey(el \o <<" ">> \o IntStr(charge) \o <<"+">>)

\* the element token of the keys of an element of atomic number Z
ElementToken(Z) == Symbols[Z]

\* string keys without exactly two whitespace-separated tokens
MalformedKeys(el) ==
    { StrKey(el), StrKey(<<>>), StrKey(el \o <<" ">>),
      StrKey(el \o <<" ", "1", " ", "2">>), StrKey(el \o <<"1">>) }

\* two-token keys that are not "<el> <stage>" or "<el> <charge>+" as a
\* caller formats them
OddKeys(el) ==
    { StrKey(el \o <<" ", " ", "1">>), StrKey(<<" ">> \o el \o <<" ", "1", "+", " ">>),
      StrKey(el \o <<" ", "+", "1">>), StrKey(el \o <<" ", "+">>),
      StrKey(el \o <<" ", "x">>), StrKey(el \o <<" ", "1", "+", "2">>),
      StrKey(<<"F", "e", " ", "1">>) }

\* the keys __getitem__ is called with on an element of atomic number Z
Keys(Z) ==
    {IntKey(k) : k \in (0 - (Z + 2))..(Z + 2)}
    \cup {StageKey(ElementToken(Z), s) : s \in (0 - 1)..(Z + 3)}
    \cup {ChargeKey(ElementToken(Z), c) : c \in (0 - 1)..(Z + 2)}
    \cup MalformedKeys(ElementToken(Z))
    \cup OddKeys(ElementToken(Z))

\* a string in lower case and in upper case
Lower(s) == [k \in 1..Len(s) |-> LowerChar(s[k])]
Upper(s) == [k \in 1..Len(s) |-> UpperChar(s[k])]

\* the element names __init__ is called with: symbols and full names in
\* three spellings, atomic numbers, the number 0 and a name no element has
Names ==
    {StrKey(Symbols[z]) : z \in 1..MaxZ}
    \cup {StrKey(Lower(Symbols[z])) : z \in 1..MaxZ}
    \cup {StrKey(Upper(Symbols[z])) : z \in 1..MaxZ}
    \cup {StrKey(ElementNames[z]) : z \in 1..MaxZ}
    \cup {StrKey(Lower(ElementNames[z])) : z \in 1..MaxZ}
    \cup {IntKey(z) : z \in 0..MaxZ}
    \cup {StrKey(<<"x", "x">>)}

\* M with entry (r, c) of the first temperature slice changed by d
Perturbed(M, r, c, d) == [M EXCEPT ![1][r][c] = @ + d]

\* the rate matrices a caller supplies: the one the builder produces, the
\* zero matrix, and perturbations of the builder's
SuppliedMatrices(ions, T) ==
    LET Z    == AtomicNumber(ions)
        b    == rate_matrix_of(ions, T)
        base == IF b.kind = "ok" THEN b.val ELSE Zeros(T, Z)
    IN  {base, Zeros(T, Z)}
        \cup {Perturbed(base, 0, 0, d) : d \in {-1, 1}}
        \cup {Perturbed(base, 0, Z, -1), Perturbed(base, Z, 0, 1)}

NoKw == [given |-> FALSE, none |-> TRUE, val |-> <<>>]
NoneKw == [given |-> TRUE, none |-> TRUE, val |-> <<>>]
MatrixKw(M) == [given |-> TRUE, none |-> FALSE, val |-> M]

\* the keyword arguments equilibrium_ionization is called with
KwArgs(ions, T) == {NoKw, NoneKw} \cup {MatrixKw(M) : M \in SuppliedMatrices(ions, T)}

\* --------------------------------------------------------------------- state
VARIABLES
    ion_list,     \* _ion_list of the element, <<>> while there is no element
    temperature,  \* temperature.shape[0] of the element, 0 while there is none
    pc,           \* "idle", or "returned" when a call has ended
    op,           \* the call that ended
    arg,          \* its argument
    ret           \* what it returned or raised

vars == <<ion_list, temperature, pc, op, arg, ret>>

NoArg == IntKey(0)
NoRet == [kind |-> "none"]

Init ==
    /\ ion_list = <<>>
    /\ temperature = 0
    /\ pc = "idle"
    /\ op = "none"
    /\ arg = NoArg
    /\ ret = NoRet

\* Element(element_name, temperature)
ElementInit ==
    /\ pc = "idle"
    /\ ion_list = <<>>
    /\ \E name \in Names, unitOk \in BOOLEAN, T \in TShapes :
         LET Z == Resolve(name)
             n == IF Z < 0 THEN 0 ELSE Z
         IN  /\ (n + 1) * T <= MaxCells
             /\ \E failAt \in 0..(n + 1) :
                \E ion \in [0..n -> [1..T -> IF failAt = 0 /\ unitOk /\ Z >= 0
                                              THEN Rates ELSE {0}]] :
                \E rec \in [0..n -> [1..T -> IF failAt = 0 /\ unitOk /\ Z >= 0
                                              THEN Rates ELSE {0}]] :
                  LET r == NewElement(name, unitOk, T, failAt, ion, rec)
                  IN  /\ ion_list' = r.ion_list
                      /\ temperature' = IF r.kind = "ok" THEN T ELSE 0
                      /\ ret' = [kind |-> r.kind, calls |-> r.calls]
                      /\ arg' = name
    /\ pc' = "returned"
    /\ op' = "init"

\* element[value]
GetItem ==
    /\ pc = "idle"
    /\ ion_list # <<>>
    /\ \E value \in Keys(AtomicNumber(ion_list)) :
         /\ ret' = getitem(ion_list, value)
         /\ arg' = value
    /\ pc' = "returned"
    /\ op' = "getitem"
    /\ UNCHANGED <<ion_list, temperature>>

\* element._rate_matrix()
RateMatrix ==
    /\ pc = "idle"
    /\ ion_list # <<>>
    /\ ret' = rate_matrix_of(ion_list, temperature)
    /\ arg' = NoArg
    /\ pc' = "returned"
    /\ op' = "rate_matrix"
    /\ UNCHANGED <<ion_list, temperature>>

\* element.equilibrium_ionization(**kwargs)
EquilibriumIonization ==
    /\ pc = "idle"
    /\ ion_list # <<>>
    /\ \E kw \in KwArgs(ion_list, temperature) :
         LET T    == temperature
             Z    == AtomicNumber(ion_list)
             m    == RateMatrixArg(ion_list, T, kw)
         IN  /\ arg' = kw
             /\ IF m.kind # "ok"
                THEN ret' = [kind |-> m.kind, built |-> m.built]
                ELSE \E V \in svd(m.val, T, Z) :
                       ret' = [kind |-> "ok", val |-> Fractions(V, T, Z), V |-> V,
                               solved |-> m.val, built |-> m.built]
    /\ pc' = "returned"
    /\ op' = "equilibrium_ionization"
    /\ UNCHANGED <<ion_list, temperature>>

\* the caller takes the result; the element is ready for the next call
Return ==
    /\ pc = "returned"
    /\ pc' = "idle"
    /\ op' = "none"
    /\ arg' = NoArg
    /\ ret' = NoRet
    /\ UNCHANGED <<ion_list, temperature>>

Next ==
    \/ ElementInit
    \/ GetItem
    \/ RateMatrix
    \/ EquilibriumIonization
    \/ Return

Spec == Init /\ [][Next]_vars

\* ------------------------------------------------------- derived quantities
\* the atomic number of the element of the current state
Z0 == AtomicNumber(ion_list)

\* rates of the provider at position i, at temperature sample t
ion_i(i, t) == ion_list[i + 1].ionization_rate[t]
rec_i(i, t) == ion_list[i + 1].recombination_rate[t]

\* the sum of column j of a slice
ColSum(A, j, Z) == SumTo([i \in 0..Z |-> A[i][j]], Z)

Det(A, Z) == DetOn(A, [k \in 1..(Z + 1) |-> k - 1], [k \in 1..(Z + 1) |-> k - 1])

\* the zero vector of length Z+1
ZeroVec(Z) == [i \in 0..Z |-> 0]

\* the positions the loop wrote and the positions the boundary rows wrote
InteriorWrites(written, Z) == {written[k] : k \in 1..(3 * (Z - 1))}
BoundaryWrites(written, Z) ==
    {written[k] : k \in ((IF Z >= 1 THEN 3 * (Z - 1) ELSE 0) + 1)..Len(written)}

\* -------------------------------------------------------------------- claims
\* the reference tridiagonal entry (i, j) at temperature sample t
RefEntry(t, i, j) ==
    IF j = i THEN 0 - (ion_i(i, t) + rec_i(i, t))
    ELSE IF j = i - 1 THEN ion_i(i - 1, t)
    ELSE IF j = i + 1 THEN rec_i(i + 1, t)
    ELSE 0

BuiltOk == op = "rate_matrix" /\ ret.kind = "ok"

\* C1: for Z >= 2 the matrix _rate_matrix returns is the reference
\* tridiagonal matrix in every entry of every temperature slice, and no
\* boundary assignment writes a position the interior loop wrote.
C1_MatrixIsReference ==
    (op = "rate_matrix" /\ Z0 >= 2) =>
        /\ ret.kind = "ok"
        /\ \A t \in 1..temperature : \A i \in 0..Z0 : \A j \in 0..Z0 :
             ret.val[t][i][j] = RefEntry(t, i, j)
        /\ InteriorWrites(ret.written, Z0) \cap BoundaryWrites(ret.written, Z0) = {}
        /\ Cardinality(InteriorWrites(ret.written, Z0)) = 3 * (Z0 - 1)

\* C1 witness: a matrix was built for Z = 2 whose interior row holds the
\* ionization rate of the stage below and the recombination rate of the
\* stage above, which differ from the row's own rates.
C1_Witness ==
    /\ BuiltOk /\ Z0 = 2
    /\ ion_i(0, 1) = 1 /\ ion_i(1, 1) = 0
    /\ rec_i(2, 1) = 1 /\ rec_i(1, 1) = 0
    /\ ret.val[1][1][0] = 1 /\ ret.val[1][1][2] = 1 /\ ret.val[1][1][1] = 0

\* C2 as stated: for Z >= 1 every column of every slice of the built matrix
\* sums to zero, whatever the providers return.
C2_EveryColumnSumsToZero ==
    (BuiltOk /\ Z0 >= 1) =>
        \A t \in 1..temperature : \A j \in 0..Z0 : ColSum(ret.val[t], j, Z0) = 0

\* C2 amended: for Z >= 1 every interior column 1..Z-1 sums to zero; column 0
\* sums to -recombination_rate_0(t) and column Z to -ionization_rate_Z(t), so
\* they sum to zero exactly when those two rates are zero.
C2_ColumnSums ==
    (op = "rate_matrix" /\ Z0 >= 1) =>
        /\ ret.kind = "ok"
        /\ \A t \in 1..temperature :
             /\ \A j \in 1..(Z0 - 1) : ColSum(ret.val[t], j, Z0) = 0
             /\ ColSum(ret.val[t], 0, Z0) = 0 - rec_i(0, t)
             /\ ColSum(ret.val[t], Z0, Z0) = 0 - ion_i(Z0, t)

\* C2 witness: a matrix was built for Z = 2 with all rates of the middle
\* stage non-zero and a neutral stage that recombines.
C2_Witness ==
    /\ BuiltOk /\ Z0 = 2
    /\ ion_i(1, 1) = 1 /\ rec_i(1, 1) = 1 /\ rec_i(0, 1) = 1
    /\ ColSum(ret.val[1], 0, Z0) = -1

\* C3 as stated: for Z >= 1 every slice of the built matrix is singular,
\* whatever the providers return.
C3_EverySliceSingular ==
    (BuiltOk /\ Z0 >= 1) =>
        \A t \in 1..temperature : Det(ret.val[t], Z0) = 0

\* the boundary rates that break conservation are zero at sample t
Closed(t) == rec_i(0, t) = 0 /\ ion_i(Z0, t) = 0

\* C3 amended: for Z >= 1 a slice of the built matrix is singular when
\* recombination_rate_0(t) = 0 and ionization_rate_Z(t) = 0, and the vector the
\* solver selects for such a slice is an exact null vector; the vector it
\* selects for a non-singular slice is not a null vector.
C3_SingularWhenClosed ==
    /\ (BuiltOk /\ Z0 >= 1) =>
          \A t \in 1..temperature : Closed(t) => Det(ret.val[t], Z0) = 0
    /\ (op = "equilibrium_ionization" /\ ret.kind = "ok" /\ ret.built /\ Z0 >= 1) =>
          \A t \in 1..temperature :
             Closed(t) => MatVec(ret.solved[t], ret.V[t], Z0) = ZeroVec(Z0)
    /\ (op = "equilibrium_ionization" /\ ret.kind = "ok" /\ ret.built /\ Z0 >= 1) =>
          \A t \in 1..temperature :
             Det(ret.solved[t], Z0) # 0 =>
                MatVec(ret.solved[t], ret.V[t], Z0) # ZeroVec(Z0)

\* C3 witness: the solver ran on the built matrix of an element with Z = 2
\* whose boundary rates are zero and whose other rates are not.
C3_Witness ==
    /\ op = "equilibrium_ionization" /\ ret.kind = "ok" /\ ret.built /\ Z0 = 2
    /\ Closed(1)
    /\ ion_i(0, 1) = 1 /\ ion_i(1, 1) = 1 /\ rec_i(1, 1) = 1 /\ rec_i(2, 1) = 1
    /\ MatVec(ret.solved[1], ret.V[1], Z0) = ZeroVec(Z0)

\* C5: for Z <= 1 building the matrix does not raise, no assignment of the
\* loop is executed and the boundary assignments alone write every entry of
\* the matrix. An element has at least two stages (the atomic numbers the
\* resolver returns start at 1), so Z = 1 is the case an element can be in.
C5_SmallElementsBuild ==
    /\ ion_list # <<>> => Z0 >= 1 /\ Len(ion_list) = Z0 + 1
    /\ (op = "rate_matrix" /\ Z0 <= 1) =>
          /\ ret.kind = "ok"
          /\ InteriorWrites(ret.written, Z0) = {}
          /\ BoundaryWrites(ret.written, Z0) = (0..Z0) \X (0..Z0)
          /\ \A t \in 1..temperature :
               /\ ret.val[t][0][0] = 0 - (ion_i(0, t) + rec_i(0, t))
               /\ ret.val[t][0][1] = rec_i(1, t)
               /\ ret.val[t][1][0] = ion_i(0, t)
               /\ ret.val[t][1][1] = 0 - (ion_i(1, t) + rec_i(1, t))

\* C5 witness: the matrix of hydrogen (Z = 1) was built from four non-zero
\* rates; its four entries were written by the boundary assignments.
C5_Witness ==
    /\ BuiltOk /\ Z0 = 1
    /\ ion_i(0, 1) = 1 /\ rec_i(0, 1) = 1 /\ ion_i(1, 1) = 1 /\ rec_i(1, 1) = 1
    /\ BoundaryWrites(ret.written, Z0) = (0..1) \X (0..1)
    /\ ret.val[1][1][0] = 1 /\ ret.val[1][1][1] = -2

Solved == op = "equilibrium_ionization" /\ ret.kind = "ok"

\* C4: whatever matrix is solved (built or supplied), the result has one row
\* per temperature sample and one entry per stage; every entry is the
\* absolute value of the component of the selected singular vector over the
\* sum of the row, the sum is not zero, every entry is non-negative (the sign
\* of num / den is the sign of num * den) and every row sums to 1.
C4_FractionsAreDistribution ==
    Solved =>
        /\ DOMAIN ret.val = 1..temperature
        /\ \A t \in 1..temperature :
             LET row == ret.val[t]
             IN  /\ DOMAIN row.num = 0..Z0
                 /\ row.den # 0
                 /\ \A i \in 0..Z0 :
                      /\ row.num[i] * row.den >= 0
                      /\ row.num[i] \in {ret.V[t][i], 0 - ret.V[t][i]}
                 /\ SumTo(row.num, Z0) = row.den

\* C4 witness: a supplied non-singular matrix was solved whose selected
\* singular vector has components of both signs.
C4_Witness ==
    /\ Solved /\ arg.given /\ ~arg.none /\ Z0 = 2
    /\ Det(ret.solved[1], Z0) # 0
    /\ \E i \in 0..Z0 : ret.V[1][i] < 0
    /\ \E i \in 0..Z0 : ret.V[1][i] > 0
    /\ ret.val[1].den >= 2

\* C6: for every position p in 0..Z the integer key p, the key
\* "<element> <p+1>" and the key "<element> <p>+" all return the provider at
\* position p.
C6_ThreeKeysOnePosition ==
    op = "getitem" =>
        \A p \in 0..Z0 :
            arg \in {IntKey(p), StageKey(ElementToken(Z0), p + 1),
                     ChargeKey(ElementToken(Z0), p)}
            => /\ ret.kind = "ok"
               /\ ret.pos = p
               /\ ret.val = ion_list[p + 1]

\* C6 witness: the stage key of the last stage of an element with Z = 2
\* returned the provider at position 2.
C6_Witness ==
    /\ op = "getitem" /\ Z0 = 2
    /\ arg = StageKey(ElementToken(2), 3)
    /\ ret.kind = "ok" /\ ret.pos = 2 /\ ret.val.stage = 3

\* C7: a string key that is not exactly two whitespace-separated tokens
\* raises the format error (ValueError) before the collection lookup is
\* reached, and returns no provider.
C7_MalformedKeyIsFormatError ==
    (op = "getitem" /\ arg \in MalformedKeys(ElementToken(Z0))) =>
        /\ ret.kind = "ValueError"
        /\ ~ret.reached

\* C7 witness: the key holding only the element token raised ValueError.
C7_Witness ==
    /\ op = "getitem" /\ Z0 = 1
    /\ arg = StrKey(<<"H">>)
    /\ ret.kind = "ValueError"

\* C8: an element that exists holds Z+1 providers, the one at position i
\* constructed for (Z, stage i+1), constructed in the order stage 1..Z+1;
\* when the name does not resolve or a provider constructor raises, the
\* error is what the caller gets and there is no element.
C8_ConstructionAllOrNothing ==
    /\ ion_list # <<>> =>
          /\ Len(ion_list) = ion_list[1].Z + 1
          /\ \A i \in 1..Len(ion_list) :
               ion_list[i].Z = ion_list[1].Z /\ ion_list[i].stage = i
    /\ (op = "init" /\ ret.kind = "ok") =>
          /\ Resolve(arg) >= 0
          /\ Len(ion_list) = Resolve(arg) + 1
          /\ ion_list[1].Z = Resolve(arg)
          /\ ret.calls = [i \in 1..(Resolve(arg) + 1) |-> <<Resolve(arg), i>>]
    /\ (op = "init" /\ ret.kind # "ok") => ion_list = <<>> /\ temperature = 0
    /\ (op = "init" /\ Resolve(arg) < 0) =>
          ret.kind \in {"InvalidParticleError", "UnitsError"}
    /\ (op = "init" /\ ret.kind = "IonError") =>
          /\ Len(ret.calls) \in 1..(Resolve(arg) + 1)
          /\ \A k \in 1..Len(ret.calls) : ret.calls[k] = <<Resolve(arg), k>>

\* C8 witness: the constructor of stage 2 of an element with Z = 2 raised,
\* after stage 1 was constructed.
C8_Witness ==
    /\ op = "init" /\ ret.kind = "IonError"
    /\ arg = StrKey(<<"h", "e">>)
    /\ ret.calls = << <<2, 1>>, <<2, 2>> >>
    /\ ion_list = <<>>

\* C9: a supplied rate_matrix is the matrix solved and the builder is not
\* invoked; without one (or with None) the builder is invoked and its matrix
\* is the one solved; a supplied matrix equal to the builder's gives
\* fractions the call without argument gives.
C9_OverrideEquivalence ==
    op = "equilibrium_ionization" =>
        LET b       == rate_matrix_of(ion_list, temperature)
            supplied == arg.given /\ ~arg.none
        IN  /\ supplied =>
                  ret.kind = "ok" /\ ~ret.built /\ ret.solved = arg.val
            /\ ~supplied =>
                  /\ ret.built
                  /\ ret.kind = b.kind
                  /\ b.kind = "ok" => ret.solved = b.val
            /\ (supplied /\ b.kind = "ok" /\ arg.val = b.val) =>
                  ret.val \in {Fractions(V, temperature, Z0) :
                                 V \in svd(b.val, temperature, Z0)}

\* C9 witness: the matrix the builder produces for an element with Z = 2 and
\* all interior rates 1 was supplied and solved without invoking the builder.
C9_Witness ==
    /\ Solved /\ arg.given /\ ~arg.none /\ ~ret.built /\ Z0 = 2
    /\ arg.val = rate_matrix_of(ion_list, temperature).val
    /\ Closed(1)
    /\ ion_i(0, 1) = 1 /\ ion_i(1, 1) = 1 /\ rec_i(1, 1) = 1 /\ rec_i(2, 1) = 1
    /\ ret.val[1].den = 3

\* C10: a stage key names a provider only for stages 1..Z+1 and a charge key
\* only for charges 0..Z; any other stage or charge raises.
C10_OutOfRangeNamesRaise ==
    op = "getitem" =>
        /\ \A s \in (0 - 1)..(Z0 + 3) :
             (arg = StageKey(ElementToken(Z0), s) /\ ~(1 <= s /\ s <= Z0 + 1))
             => ret.kind # "ok"
        /\ \A c \in (0 - 1)..(Z0 + 2) :
             (arg = ChargeKey(ElementToken(Z0), c) /\ ~(0 <= c /\ c <= Z0))
             => ret.kind # "ok"

====
